---- MODULE Spec2Model ----
(***************************************************************************)
(* Declaration type checking (lib/Sema/TypeCheckDecl.cpp): DeclChecker's   *)
(* visit methods for VarDecl, FuncDecl and ElementRefDecl, with the        *)
(* helpers visitValueDecl, validateAttributes and validateVarName.         *)
(***************************************************************************)
EXTENDS Integers, Sequences, FiniteSets, TLC

VARIABLES
  VD,      \* the Variable or Function declaration node
  ERD,     \* an ElementRefDecl whose owner (ERD->VD) is VD
  diags,   \* everything TC.diagnose has reported so far, in order
  driver,  \* how often the host driver has handed each node to typeCheckDecl
  pre,     \* the node as it was when the last typeCheckDecl call began
  obs      \* what the last typeCheckDecl call did (calls made, diagnostics, results)

vars == <<VD, ERD, diags, driver, pre, obs>>

(* ------------------------------ bounds -------------------------------- *)
MaxFields == 3   \* widest flat tuple type
MaxElems  == 3   \* most children of a flat name pattern
MaxPath   == 2   \* longest access path of an ElementRefDecl
MaxChecks == 2   \* how often the driver hands the same ElementRefDecl over

(* ------------------------------ types --------------------------------- *)
\* A Type: kind k and component types a (tuple fields, oneof element
\* argument types, or <<Input, Result>> of a function type).
MkTy(k, a) == [k |-> k, a |-> a]
NullTy == MkTy("null", <<>>)            \* Type(), the null Type
DepTy  == MkTy("dependent", <<>>)       \* DependentType
ErrTy  == MkTy("error", <<>>)           \* ErrorType
IntTy  == MkTy("builtin", <<>>)         \* some resolved non-aggregate type
TupleTy(fields)  == MkTy("tuple", fields)
FuncTy(in, out)  == MkTy("function", <<in, out>>)
OneOfTy(elts)    == MkTy("oneof", elts)

IsDependent(t) == t.k = "dependent"
HasSingleElement(t) == t.k = "oneof" /\ Len(t.a) = 1

RECURSIVE IntSeq(_)
IntSeq(n) == IF n = 0 THEN <<>> ELSE Append(IntSeq(n - 1), IntTy)
FlatTy(n) == TupleTy(IntSeq(n))

FlatTys   == {FlatTy(n) : n \in 0..MaxFields}
FieldTys  == {IntTy, DepTy} \cup FlatTys
NestedTys == {TupleTy(<<x, y>>) : x \in FieldTys, y \in FieldTys}
PayloadTys == {IntTy} \cup FlatTys
                \cup {OneOfTy(<<FlatTy(2)>>), TupleTy(<<FlatTy(2), IntTy>>),
                      OneOfTy(<<FlatTy(2), IntTy>>)}
OneOfTys  == {OneOfTy(<<p>>) : p \in PayloadTys} \cup {OneOfTy(<<FlatTy(2), IntTy>>)}
FuncTys   == {FuncTy(in, IntTy) : in \in {IntTy} \cup FlatTys}
\* types the parser leaves on a declaration: written out, or dependent
DeclTys   == {IntTy, DepTy} \cup FlatTys \cup NestedTys \cup OneOfTys \cup FuncTys
\* types a declaration may carry once it has been checked
CheckedTys == DeclTys \cup {ErrTy}
\* result types a successful expression check may leave on the initializer
ExprTys   == {IntTy, FlatTy(2), FuncTy(FlatTy(1), IntTy), FuncTy(FlatTy(2), IntTy),
              FuncTy(FlatTy(MaxFields), IntTy)}

(* --------------------------- name patterns ---------------------------- *)
\* DeclVarName: simple, or a parenthesized list of DeclVarNames; NoName is
\* the null pointer stored by setNestedName(nullptr).
NoName     == [k |-> "null", e |-> <<>>]
SimpleName == [k |-> "simple", e |-> <<>>]
ListName(elems) == [k |-> "list", e |-> elems]

RECURSIVE SimpleSeq(_)
SimpleSeq(n) == IF n = 0 THEN <<>> ELSE Append(SimpleSeq(n - 1), SimpleName)
FlatNames   == {ListName(SimpleSeq(n)) : n \in 0..MaxElems}
NestedNames == {ListName(<<x, y>>) : x \in {SimpleName} \cup FlatNames,
                                      y \in {SimpleName} \cup FlatNames}
Names == {NoName} \cup FlatNames \cup NestedNames

(* ----------------------------- diagnostics ---------------------------- *)
Diag(id, loc, ty, n1, n2) == [id |-> id, loc |-> loc, ty |-> ty, n1 |-> n1, n2 |-> n2]
Diag0(id, loc) == Diag(id, loc, NullTy, -1, -1)
Ids(ds) == [i \in 1..Len(ds) |-> ds[i].id]
Count(ds, id) == Cardinality({i \in 1..Len(ds) : ds[i].id = id})

(* --------------------------- external services ------------------------ *)
\* TypeChecker::validateType(ValueDecl*): true on failure; a failed
\* resolution leaves the error sentinel as the declaration's type.
ValidateType(vd, fails) ==
  [vd |-> IF fails THEN [vd EXCEPT !.type = ErrTy] ELSE vd, ret |-> fails]

\* TypeChecker::typeCheckExpression(Expr*&, Type): true on failure; on
\* success the initializer carries its resulting type.
TypeCheckExpression(init, destTy, fails, resTy) ==
  [init |-> IF fails THEN init ELSE [init EXCEPT !.ty = resTy], ret |-> fails]

\* ElementRefDecl::getTypeForPath: walk the access path through the type,
\* NullTy when the path names no position of it.
RECURSIVE GetTypeForPath(_, _)
GetTypeForPath(Ty, Path) ==
  IF Path = <<>> THEN Ty
  ELSE LET T == IF HasSingleElement(Ty) THEN Ty.a[1] ELSE Ty
       IN  IF T.k = "tuple" /\ Head(Path) < Len(T.a)
           THEN GetTypeForPath(T.a[Head(Path) + 1], Tail(Path))
           ELSE NullTy

(* ------------------------- validateAttributes ------------------------- *)
\* The number of lexical arguments, -1 when the type is no function type
\* with a tuple input.
NumArguments(Ty) ==
  IF Ty.k = "function" /\ Ty.a[1].k = "tuple" THEN Len(Ty.a[1].a) ELSE -1

ClearInfix(vd) == [vd EXCEPT !.infix = FALSE]     \* Attrs.Infix = InfixData()

\* The validator's running state: the declaration, the diagnostics emitted
\* so far and whether the function has returned.
AttrStart(vd) == [vd |-> vd, diags |-> <<>>, done |-> FALSE]

Rule1_NoReturn(s, n) ==
  IF ~s.done /\ s.vd.isOperator /\ (n = 0 \/ n > 2)
  THEN [s EXCEPT !.diags = Append(@, Diag0("invalid_arg_count_for_operator", "declStart")),
                 !.vd = ClearInfix(@)]
  ELSE s

\* if (VD->isOperator() && (NumArguments == 0 || NumArguments > 2)) {...; return;}
Rule1(s, n) ==
  IF ~s.done /\ s.vd.isOperator /\ (n = 0 \/ n > 2)
  THEN [s EXCEPT !.diags = Append(@, Diag0("invalid_arg_count_for_operator", "declStart")),
                 !.vd = ClearInfix(@),
                 !.done = TRUE]
  ELSE s

Rule2_NoClear(s, n) ==
  IF ~s.done /\ s.vd.infix /\ n # 2
  THEN [s EXCEPT !.diags = Append(@, Diag0("invalid_infix_left_input", "attrLSquare"))]
  ELSE s

\* if (Attrs.isInfix() && NumArguments != 2) {...}
Rule2(s, n) ==
  IF ~s.done /\ s.vd.infix /\ n # 2
  THEN [s EXCEPT !.diags = Append(@, Diag0("invalid_infix_left_input", "attrLSquare")),
                 !.vd = ClearInfix(@)]
  ELSE s

Rule3_Never(s) == s

\* if (Attrs.isInfix() && !VD->isOperator()) {...}
Rule3(s) ==
  IF ~s.done /\ s.vd.infix /\ ~s.vd.isOperator
  THEN [s EXCEPT !.diags = Append(@, Diag0("infix_left_not_an_operator", "declStart")),
                 !.vd = ClearInfix(@)]
  ELSE s

\* if (Attrs.isInfix() && !isa<VarDecl>(VD) && !isa<FuncDecl>(VD)) {...}
Rule4(s) ==
  IF ~s.done /\ s.vd.infix /\ s.vd.kind # "var" /\ s.vd.kind # "func"
  THEN [s EXCEPT !.diags = Append(@, Diag0("infix_left_invalid_on_decls", "declStart")),
                 !.vd = ClearInfix(@)]
  ELSE s

Rule5_Never(s, n) == s

\* if (VD->isOperator() && !VD->getAttrs().isInfix() && NumArguments != 1) {...}
Rule5(s, n) ==
  IF ~s.done /\ s.vd.isOperator /\ ~s.vd.infix /\ n # 1
  THEN [s EXCEPT !.diags = Append(@, Diag0("binops_infix_left", "declStart"))]
  ELSE s

ValidateAttributes(vd) ==
  LET n == NumArguments(vd.type)
      s == Rule5(Rule4(Rule3(Rule2(Rule1(AttrStart(vd), n), n))), n)
  IN  [vd |-> s.vd, diags |-> s.diags]

(* --------------------------- validateVarName -------------------------- *)
UnwrapSingleElement_Never(Ty) == Ty

\* if (OneOfType *OOT = Ty->getAs<OneOfType>())
\*   if (OOT->hasSingleElement()) Ty = OOT->getElement(0)->ArgumentType;
UnwrapSingleElement(Ty) == IF HasSingleElement(Ty) THEN Ty.a[1] ELSE Ty

CountMismatch_Never(T, Name) == FALSE

\* Elements.size() != AccessedTuple->Fields.size()
CountMismatch(T, Name) == Len(Name.e) # Len(T.a)

Matched == [ret |-> FALSE, diags |-> <<>>]

RECURSIVE ValidateVarName(_, _)
RECURSIVE ValidateElements(_, _, _)
\* true = mismatch; diags are the diagnostics emitted on the way
ValidateVarName(Ty, Name) ==
  IF Name.k = "simple" THEN Matched
  ELSE IF IsDependent(Ty) THEN Matched
  ELSE LET T == UnwrapSingleElement(Ty)
       IN  IF T.k # "tuple"
           THEN [ret |-> TRUE,
                 diags |-> <<Diag("name_matches_nontuple", "nameLoc", T, -1, -1)>>]
           ELSE IF CountMismatch(T, Name)
           THEN [ret |-> TRUE,
                 diags |-> <<Diag("varname_element_count_mismatch", "nameLoc", T,
                                  Len(T.a), Len(Name.e))>>]
           ELSE ValidateElements(T, Name, 1)

\* for (i = 0; i != e; ++i) if (validateVarName(Fields[i].Ty, Elements[i])) return true;
ValidateElements(T, Name, i) ==
  IF i > Len(Name.e) THEN Matched
  ELSE LET r == ValidateVarName(T.a[i], Name.e[i])
       IN  IF r.ret THEN r
           ELSE LET rest == ValidateElements(T, Name, i + 1)
                IN  [ret |-> rest.ret, diags |-> r.diags \o rest.diags]

(* ---------------------------- visitValueDecl -------------------------- *)
NoInit == [present |-> FALSE, ty |-> NullTy]

DropInit_Never(vd) == vd

\* VD->setInit(nullptr)
DropInit(vd) == [vd EXCEPT !.init = NoInit]

AdoptInitType_Always(vd, exRet) == [vd EXCEPT !.type = vd.init.ty]

\* if (!TC.typeCheckExpression(...)) VD->overwriteType(VD->getInit()->getType());
AdoptInitType(vd, exRet) == IF ~exRet THEN [vd EXCEPT !.type = vd.init.ty] ELSE vd

\* The else branch of visitValueDecl: an initializer is present.
CheckInit(vd, exFails, exTy) ==
  LET DestTy == IF IsDependent(vd.type) THEN NullTy ELSE vd.type
      ex     == TypeCheckExpression(vd.init, DestTy, exFails, exTy)
      v      == AdoptInitType([vd EXCEPT !.init = ex.init], ex.ret)
  IN  [vd |-> v, destTy |-> DestTy, failed |-> ex.ret,
       diags |-> IF ex.ret /\ vd.kind = "var"
                 THEN <<Diag0("while_converting_var_init", "declStart")>>
                 ELSE <<>>]

\* What one run of visitValueDecl returns and leaves behind; resolved is
\* the declaration as validateType left it.
ValueResult(vd, ret, ds, cs, vt, ex, attr) ==
  [vd |-> vd, ret |-> ret, diags |-> ds, calls |-> cs,
   vtFailed |-> vt.ret, resolved |-> vt.vd,
   exRan |-> ex.ran, exFailed |-> ex.failed, destTy |-> ex.destTy,
   attrRan |-> attr.ran, attrDiags |-> attr.diags]

NoEx   == [ran |-> FALSE, failed |-> FALSE, destTy |-> NullTy]
NoAttr == [ran |-> FALSE, diags |-> <<>>]

VisitValueDecl(vd, vtFails, exFails, exTy) ==
  LET vt == ValidateType(vd, vtFails)
      v1 == vt.vd
  IN  IF vt.ret
      THEN ValueResult(DropInit(v1), TRUE, <<>>, <<"validateType">>, vt, NoEx, NoAttr)
      ELSE IF ~v1.init.present
      THEN IF IsDependent(v1.type)
           THEN ValueResult(v1, TRUE, <<>>, <<"validateType">>, vt, NoEx, NoAttr)
           ELSE LET at == ValidateAttributes(v1)
                IN  ValueResult(at.vd, FALSE, at.diags,
                                <<"validateType", "validateAttributes">>, vt, NoEx,
                                [ran |-> TRUE, diags |-> at.diags])
      ELSE LET ci == CheckInit(v1, exFails, exTy)
               at == ValidateAttributes(ci.vd)
           IN  ValueResult(at.vd, FALSE, ci.diags \o at.diags,
                           <<"validateType", "typeCheckExpression", "validateAttributes">>,
                           vt, [ran |-> TRUE, failed |-> ci.failed, destTy |-> ci.destTy],
                           [ran |-> TRUE, diags |-> at.diags])

(* --------------------------- the visit methods ------------------------ *)
\* visitValueDecl's result extended with what visitVarDecl did after it
WithName(r, vd, nameRan, nm) ==
  [vd |-> vd, ret |-> r.ret, diags |-> r.diags \o nm.diags,
   calls |-> IF nameRan THEN Append(r.calls, "validateVarName") ELSE r.calls,
   vtFailed |-> r.vtFailed, resolved |-> r.resolved, exRan |-> r.exRan, exFailed |-> r.exFailed,
   destTy |-> r.destTy, attrRan |-> r.attrRan, attrDiags |-> r.attrDiags,
   valueVD |-> r.vd, nameRan |-> nameRan, nameRet |-> nm.ret, nameDiags |-> nm.diags]

MatchName(r) ==
  LET nm == ValidateVarName(r.vd.type, r.vd.nestedName)
  IN  WithName(r, IF nm.ret THEN [r.vd EXCEPT !.nestedName = NoName] ELSE r.vd, TRUE, nm)

VisitVarDecl_NoDetach(vd, vtFails, exFails, exTy) ==
  LET r == VisitValueDecl(vd, vtFails, exFails, exTy)
  IN  IF r.ret THEN WithName(r, r.vd, FALSE, Matched)
      ELSE IF r.vd.nestedName # NoName
           THEN WithName(r, r.vd, TRUE, ValidateVarName(r.vd.type, r.vd.nestedName))
           ELSE WithName(r, r.vd, FALSE, Matched)

VisitVarDecl_IgnoreFailure(vd, vtFails, exFails, exTy) ==
  LET r == VisitValueDecl(vd, vtFails, exFails, exTy)
  IN  IF r.vd.nestedName # NoName THEN MatchName(r)
      ELSE WithName(r, r.vd, FALSE, Matched)

VisitVarDecl(vd, vtFails, exFails, exTy) ==
  LET r == VisitValueDecl(vd, vtFails, exFails, exTy)
  IN  IF r.ret THEN WithName(r, r.vd, FALSE, Matched)
      ELSE IF r.vd.nestedName # NoName THEN MatchName(r)
      ELSE WithName(r, r.vd, FALSE, Matched)

VisitFuncDecl(vd, vtFails, exFails, exTy) ==
  LET r == VisitValueDecl(vd, vtFails, exFails, exTy)
  IN  WithName(r, r.vd, FALSE, Matched)

VisitElementRefDecl_NoGuard(erd, ownerTy) ==
  LET T == GetTypeForPath(ownerTy, erd.path)
  IN  IF T # NullTy
      THEN [erd |-> [erd EXCEPT !.type = T], walked |-> TRUE, wrote |-> TRUE,
            diags |-> <<>>]
      ELSE [erd |-> [erd EXCEPT !.type = ErrTy], walked |-> TRUE, wrote |-> TRUE,
            diags |-> <<Diag("invalid_index_in_element_ref", "erdStart", ownerTy, -1, -1)>>]

VisitElementRefDecl(erd, ownerTy) ==
  IF ~IsDependent(erd.type)
  THEN [erd |-> erd, walked |-> FALSE, wrote |-> FALSE, diags |-> <<>>]
  ELSE LET T == GetTypeForPath(ownerTy, erd.path)
       IN  IF T # NullTy
           THEN [erd |-> [erd EXCEPT !.type = T], walked |-> TRUE, wrote |-> TRUE,
                 diags |-> <<>>]
           ELSE [erd |-> [erd EXCEPT !.type = ErrTy], walked |-> TRUE, wrote |-> TRUE,
                 diags |-> <<Diag("invalid_index_in_element_ref", "erdStart",
                                  ownerTy, -1, -1)>>]

(* ------------------------------ the driver ---------------------------- *)
Inits == {NoInit, [present |-> TRUE, ty |-> DepTy]}

VarDecls ==
  [kind : {"var"}, type : DeclTys, init : Inits, isOperator : BOOLEAN,
   infix : BOOLEAN, nestedName : Names]
FuncDecls ==
  [kind : {"func"}, type : DeclTys, init : Inits, isOperator : BOOLEAN,
   infix : BOOLEAN, nestedName : {NoName}]

RECURSIVE PathsOfLen(_)
PathsOfLen(n) ==
  IF n = 0 THEN {<<>>}
  ELSE {Append(p, i) : p \in PathsOfLen(n - 1), i \in 0..MaxFields - 1}
Paths == UNION {PathsOfLen(n) : n \in 0..MaxPath}

NoObs == [op |-> "none", prevOp |-> "none"]
Fresh == [vd |-> 0, erd |-> 0]

\* The parser's output: an unchecked value declaration.
Init ==
  /\ VD \in VarDecls \cup FuncDecls
  /\ ERD = [type |-> DepTy, path |-> <<>>]
  /\ diags = <<>>
  /\ driver = Fresh
  /\ pre = VD
  /\ obs = NoObs

Record(op, r) == [op |-> op, prevOp |-> obs.op, r |-> r]

\* typeCheckDecl(D) with D a VarDecl
CheckVarDecl ==
  /\ VD.kind = "var" /\ driver.vd = 0
  /\ \E vtFails \in BOOLEAN, exFails \in BOOLEAN, exTy \in ExprTys :
       LET r == VisitVarDecl(VD, vtFails, exFails, exTy)
       IN  /\ VD' = r.vd
           /\ diags' = diags \o r.diags
           /\ obs' = Record("visitVarDecl", r)
  /\ pre' = VD
  /\ driver' = [driver EXCEPT !.vd = 1]
  /\ UNCHANGED ERD

\* typeCheckDecl(D) with D a FuncDecl
CheckFuncDecl ==
  /\ VD.kind = "func" /\ driver.vd = 0
  /\ \E vtFails \in BOOLEAN, exFails \in BOOLEAN, exTy \in ExprTys :
       LET r == VisitFuncDecl(VD, vtFails, exFails, exTy)
       IN  /\ VD' = r.vd
           /\ diags' = diags \o r.diags
           /\ obs' = Record("visitFuncDecl", r)
  /\ pre' = VD
  /\ driver' = [driver EXCEPT !.vd = 1]
  /\ UNCHANGED ERD

Next == CheckVarDecl \/ CheckFuncDecl

Spec == Init /\ [][Next]_vars

\* A checked Variable of any type, and an ElementRefDecl into it that the
\* parser left with the dependent type.
InitElementRef ==
  /\ VD \in [kind : {"var"}, type : CheckedTys, init : {NoInit}, isOperator : {FALSE},
             infix : {FALSE}, nestedName : {NoName, ListName(SimpleSeq(2))}]
  /\ ERD \in [type : {DepTy}, path : Paths]
  /\ diags = <<>>
  /\ driver = [vd |-> 1, erd |-> 0]
  /\ pre = ERD
  /\ obs = NoObs

\* typeCheckDecl(D) with D an ElementRefDecl
CheckElementRefDecl ==
  /\ driver.vd = 1 /\ driver.erd < MaxChecks
  /\ LET r == VisitElementRefDecl(ERD, VD.type)
     IN  /\ ERD' = r.erd
         /\ diags' = diags \o r.diags
         /\ obs' = Record("visitElementRefDecl", r)
  /\ pre' = ERD
  /\ driver' = [driver EXCEPT !.erd = @ + 1]
  /\ UNCHANGED VD

NextElementRef == CheckElementRefDecl

SpecElementRef == InitElementRef /\ [][NextElementRef]_vars

(* ============================ properties ============================== *)
ValueChecked == obs.op \in {"visitVarDecl", "visitFuncDecl"}
\* NumArguments as validateAttributes computed it (the type is final by then)
AttrN == NumArguments(VD.type)
HasDiag(ds, id) == Count(ds, id) >= 1

(* C1 as stated: after visitValueDecl the declaration's type is never the
   unresolved placeholder, and where type resolution failed the type is the
   error sentinel and the initializer is absent. *)
C1_NeverPlaceholder ==
  ValueChecked =>
    /\ ~IsDependent(VD.type)
    /\ (obs.r.vtFailed => VD.type = ErrTy /\ ~VD.init.present)

(* C1 amended: where type resolution failed the type is the error sentinel
   and the initializer is absent; where it succeeded, the type is the
   placeholder after visitValueDecl exactly when resolution left the
   placeholder and the initializer is absent or its check failed. *)
C1_PlaceholderOnlyWithoutInferredType ==
  ValueChecked =>
    /\ (obs.r.vtFailed => VD.type = ErrTy /\ ~VD.init.present)
    /\ (IsDependent(VD.type) <=>
          /\ ~obs.r.vtFailed
          /\ IsDependent(obs.r.resolved.type)
          /\ (~pre.init.present \/ obs.r.exFailed))

C1_Witness ==
  /\ ValueChecked /\ obs.r.vtFailed /\ pre.init.present
  /\ VD.type = ErrTy /\ ~VD.init.present

(* C2 as stated: after checkDeclaration infix data is present only if the
   declaration is an operator whose type is a function of a two-field
   tuple, for every outcome of the external services. *)
C2_InfixOnlyOnBinaryOperator ==
  ValueChecked => (VD.infix => VD.isOperator /\ AttrN = 2)

(* C2 amended: when value validation reached validateAttributes, infix data
   is present afterwards only on an operator with a two-field tuple input;
   when it returned early, the infix data is as it was on entry. *)
C2_InfixOnlyOnBinaryOperatorWhenValidated ==
  ValueChecked =>
    /\ (obs.r.attrRan => (VD.infix => VD.isOperator /\ AttrN = 2))
    /\ (~obs.r.attrRan => VD.infix = pre.infix)

C2_Witness ==
  /\ ValueChecked /\ obs.r.attrRan
  /\ pre.infix /\ ~pre.isOperator /\ AttrN = 2 /\ ~VD.infix

(* C3 as stated: an operator whose input is non-tuple or has zero, one or
   three arguments gets at least one diagnostic from validateAttributes and
   is left without infix data. *)
C3_BadOperatorArityDiagnosed ==
  (ValueChecked /\ obs.r.attrRan /\ pre.isOperator /\ AttrN \in {-1, 0, 1, 3}) =>
    /\ Len(obs.r.attrDiags) >= 1
    /\ ~VD.infix

(* C3 amended: such an operator is always left without infix data; with a
   non-tuple input or zero or three arguments at least one diagnostic is
   emitted; with one argument a diagnostic is emitted exactly when infix
   data was set on entry. *)
C3_BadOperatorArityCleared ==
  (ValueChecked /\ obs.r.attrRan /\ pre.isOperator /\ AttrN \in {-1, 0, 1, 3}) =>
    /\ ~VD.infix
    /\ (AttrN # 1 => Len(obs.r.attrDiags) >= 1)
    /\ (AttrN = 1 => (Len(obs.r.attrDiags) >= 1 <=> pre.infix))

C3_Witness ==
  /\ ValueChecked /\ obs.r.attrRan /\ pre.isOperator /\ AttrN = 1 /\ pre.infix
  /\ Ids(obs.r.attrDiags) = <<"invalid_infix_left_input">> /\ ~VD.infix

\* Shape compatibility of a name pattern with a type, stated declaratively.
RECURSIVE Compatible(_, _)
Compatible(Ty, Name) ==
  \/ Name.k = "simple"
  \/ IsDependent(Ty)
  \/ LET T == IF HasSingleElement(Ty) THEN Ty.a[1] ELSE Ty
     IN  /\ T.k = "tuple"
         /\ Len(T.a) = Len(Name.e)
         /\ \A i \in 1..Len(Name.e) : Compatible(T.a[i], Name.e[i])

\* The <<field count, child count>> of the count mismatch the positional
\* recursion reaches first, as a set: empty when it reaches none.
RECURSIVE ReachedCountMismatch(_, _)
ReachedCountMismatch(Ty, Name) ==
  IF Name.k = "simple" \/ IsDependent(Ty) THEN {}
  ELSE LET T == IF HasSingleElement(Ty) THEN Ty.a[1] ELSE Ty
       IN  IF T.k # "tuple" THEN {}
           ELSE IF Len(T.a) # Len(Name.e) THEN {<<Len(T.a), Len(Name.e)>>}
           ELSE LET bad == {i \in 1..Len(Name.e) : ~Compatible(T.a[i], Name.e[i])}
                IN  IF bad = {} THEN {}
                    ELSE LET i == CHOOSE j \in bad : \A k \in bad : j <= k
                         IN  ReachedCountMismatch(T.a[i], Name.e[i])

(* C4: when visitValueDecl succeeds on a Variable and the recursion of
   validateVarName reaches a level whose pattern has another child count
   than the tuple type has fields, the matcher reports a mismatch, emits
   exactly one count-mismatch diagnostic with both counts, the pattern is
   detached and the Variable's type is what it was before matching. *)
C4_CountMismatchDetachesPattern ==
  (obs.op = "visitVarDecl" /\ ~obs.r.ret /\ pre.nestedName # NoName) =>
    \A m \in ReachedCountMismatch(obs.r.valueVD.type, pre.nestedName) :
      /\ obs.r.nameRan /\ obs.r.nameRet
      /\ Count(obs.r.diags, "varname_element_count_mismatch") = 1
      /\ Len(obs.r.nameDiags) = 1
      /\ obs.r.nameDiags[1].id = "varname_element_count_mismatch"
      /\ obs.r.nameDiags[1].n1 = m[1] /\ obs.r.nameDiags[1].n2 = m[2]
      /\ VD.nestedName = NoName
      /\ VD.type = obs.r.valueVD.type

C4_Witness ==
  /\ obs.op = "visitVarDecl" /\ ~obs.r.ret
  /\ pre.nestedName = ListName(<<SimpleName, ListName(SimpleSeq(3))>>)
  /\ VD.type = TupleTy(<<IntTy, FlatTy(2)>>)
  /\ VD.nestedName = NoName
  /\ obs.r.nameDiags[1].n1 = 2 /\ obs.r.nameDiags[1].n2 = 3

NameOutcome == [ret |-> obs.r.nameRet, diags |-> obs.r.nameDiags]

(* C5 as stated: for every pattern P and single-case sum type S with
   payload T, validateVarName's result and diagnostics on (S, P) are those
   on (T, P). *)
C5_SingleCaseMatchesAsPayload ==
  (obs.op = "visitVarDecl" /\ obs.r.nameRan /\ HasSingleElement(obs.r.valueVD.type)) =>
    NameOutcome = ValidateVarName(obs.r.valueVD.type.a[1], pre.nestedName)

(* C5 amended: the same, for every single-case sum type S whose payload T
   is neither the unresolved placeholder nor itself a single-case sum type;
   in particular (a, b) against a single-case sum type with a two-field
   tuple payload reports no mismatch, emits nothing and stays attached. *)
C5_SingleCaseMatchesAsPlainPayload ==
  (obs.op = "visitVarDecl" /\ obs.r.nameRan /\ HasSingleElement(obs.r.valueVD.type)) =>
    LET T == obs.r.valueVD.type.a[1]
    IN  /\ (~IsDependent(T) /\ ~HasSingleElement(T)) =>
              NameOutcome = ValidateVarName(T, pre.nestedName)
        /\ (T = FlatTy(2) /\ pre.nestedName = ListName(SimpleSeq(2))) =>
              /\ NameOutcome = Matched
              /\ VD.nestedName = pre.nestedName

C5_Witness ==
  /\ obs.op = "visitVarDecl" /\ obs.r.nameRan
  /\ VD.type = OneOfTy(<<FlatTy(2)>>)
  /\ pre.nestedName = ListName(SimpleSeq(2))
  /\ VD.nestedName = pre.nestedName /\ NameOutcome = Matched

SecondElementRefCheck ==
  obs.op = "visitElementRefDecl" /\ obs.prevOp = "visitElementRefDecl"

(* C6 as stated: the second of two successive checks of an ElementRefDecl
   leaves the node's type as the first did and does no work: no path walk,
   no write of the type, no diagnostic, for every owner type and path. *)
C6_SecondCheckIsNoOp ==
  SecondElementRefCheck =>
    /\ ERD.type = pre.type
    /\ ~obs.r.walked /\ ~obs.r.wrote /\ obs.r.diags = <<>>

(* C6 amended: the second check is a no-op whenever the first check left a
   type other than the unresolved placeholder (a resolved type or the error
   sentinel); when the path leads to the placeholder, the second check
   walks the path and writes the type again. *)
C6_SecondCheckIsNoOpOnceResolved ==
  SecondElementRefCheck =>
    /\ ERD.type = pre.type
    /\ (~IsDependent(pre.type) =>
          ~obs.r.walked /\ ~obs.r.wrote /\ obs.r.diags = <<>>)
    /\ (IsDependent(pre.type) => obs.r.walked /\ obs.r.wrote)

C6_Witness ==
  /\ SecondElementRefCheck /\ pre.type = ErrTy /\ ERD.type = ErrTy
  /\ Len(diags) = 1

(* C7: when validateType fails, checkDeclaration removes the initializer,
   calls neither typeCheckExpression nor validateAttributes nor
   validateVarName, emits no diagnostic and leaves the attributes and the
   name pattern as they were on entry. *)
C7_ResolutionFailureStopsValidation ==
  (ValueChecked /\ obs.r.vtFailed) =>
    /\ ~VD.init.present
    /\ obs.r.calls = <<"validateType">>
    /\ ~obs.r.exRan /\ ~obs.r.attrRan /\ ~obs.r.nameRan
    /\ obs.r.diags = <<>> /\ diags = <<>>
    /\ VD.isOperator = pre.isOperator /\ VD.infix = pre.infix
    /\ VD.nestedName = pre.nestedName

C7_Witness ==
  /\ ValueChecked /\ obs.r.vtFailed
  /\ pre.init.present /\ ~VD.init.present
  /\ pre.infix /\ VD.infix
  /\ pre.nestedName = ListName(SimpleSeq(2)) /\ VD.nestedName = pre.nestedName

Rule1Triggers == pre.isOperator /\ (AttrN = 0 \/ AttrN > 2)

(* C8 as stated: when Rule 1 does not trigger, every one of Rules 2 to 5
   whose condition holds of the declaration as it was on entry emits its
   diagnostic. *)
C8_RulesIndependent ==
  (ValueChecked /\ obs.r.attrRan /\ ~Rule1Triggers) =>
    /\ (pre.infix /\ AttrN # 2) => HasDiag(obs.r.attrDiags, "invalid_infix_left_input")
    /\ (pre.infix /\ ~pre.isOperator) =>
          HasDiag(obs.r.attrDiags, "infix_left_not_an_operator")
    /\ (pre.infix /\ pre.kind \notin {"var", "func"}) =>
          HasDiag(obs.r.attrDiags, "infix_left_invalid_on_decls")
    /\ (pre.isOperator /\ ~pre.infix /\ AttrN # 1) =>
          HasDiag(obs.r.attrDiags, "binops_infix_left")

(* C8 amended: when Rule 1 does not trigger, Rules 2 and 5 emit whenever
   their condition holds on entry, but Rule 3 sees the infix data as Rule 2
   left it: "infix on non-operator" is emitted exactly when the declaration
   entered with infix data, is no operator and has two arguments. *)
C8_RulesSequential ==
  (ValueChecked /\ obs.r.attrRan /\ ~Rule1Triggers) =>
    /\ HasDiag(obs.r.attrDiags, "invalid_infix_left_input") <=> (pre.infix /\ AttrN # 2)
    /\ HasDiag(obs.r.attrDiags, "infix_left_not_an_operator") <=>
          (pre.infix /\ ~pre.isOperator /\ AttrN = 2)
    /\ ~HasDiag(obs.r.attrDiags, "infix_left_invalid_on_decls")
    /\ (pre.isOperator /\ ~pre.infix /\ AttrN # 1) =>
          HasDiag(obs.r.attrDiags, "binops_infix_left")

C8_Witness ==
  /\ ValueChecked /\ obs.r.attrRan
  /\ pre.infix /\ ~pre.isOperator /\ AttrN = 1
  /\ Ids(obs.r.attrDiags) = <<"invalid_infix_left_input">>

ConversionDiags == Count(obs.r.diags, "while_converting_var_init")

(* C9 as stated: with an initializer, the type is overwritten only when the
   expression check succeeds and the declared type was the placeholder;
   otherwise it stays what validateType left. A failed check emits the
   conversion diagnostic exactly when the declaration is a Variable. *)
C9_OverwriteOnlyPlaceholder ==
  (ValueChecked /\ obs.r.exRan) =>
    /\ (~obs.r.exFailed /\ IsDependent(obs.r.resolved.type)) => VD.type = VD.init.ty
    /\ (obs.r.exFailed \/ ~IsDependent(obs.r.resolved.type)) =>
          VD.type = obs.r.resolved.type
    /\ obs.r.exFailed => (ConversionDiags = 1 <=> pre.kind = "var")
    /\ obs.r.exFailed => (ConversionDiags = 0 <=> pre.kind = "func")

(* C9 amended: the type is overwritten with the initializer's resulting
   type whenever the expression check succeeds, whether the declared type
   was the placeholder or already resolved; when the check fails the type
   stays what validateType left, and the conversion diagnostic is emitted
   exactly when the declaration is a Variable. *)
C9_OverwriteOnEverySuccess ==
  (ValueChecked /\ obs.r.exRan) =>
    /\ ~obs.r.exFailed => (VD.type = VD.init.ty /\ ConversionDiags = 0)
    /\ obs.r.exFailed => VD.type = obs.r.resolved.type
    /\ obs.r.exFailed => (ConversionDiags = 1 <=> pre.kind = "var")
    /\ obs.r.exFailed => (ConversionDiags = 0 <=> pre.kind = "func")

C9_Witness ==
  /\ ValueChecked /\ obs.r.exRan /\ ~obs.r.exFailed
  /\ obs.r.resolved.type = IntTy /\ VD.type = FlatTy(2)

(* C10: for an operator with 0 or more than 2 arguments one run of
   validateAttributes emits exactly one diagnostic, the invalid argument
   count one, clears the infix data and applies none of Rules 2 to 5. *)
C10_Rule1ShortCircuits ==
  (ValueChecked /\ obs.r.attrRan /\ pre.isOperator /\ (AttrN = 0 \/ AttrN > 2)) =>
    /\ Ids(obs.r.attrDiags) = <<"invalid_arg_count_for_operator">>
    /\ ~VD.infix

C10_Witness ==
  /\ ValueChecked /\ obs.r.attrRan /\ pre.isOperator /\ AttrN = 3 /\ pre.infix
  /\ Ids(obs.r.attrDiags) = <<"invalid_arg_count_for_operator">> /\ ~VD.infix
====
